---------------------------- MODULE Spec2Model ----------------------------
(***************************************************************************)
(* Model of the fraud scoring engine of bank-fraud-detection-mvp:          *)
(* app/services/anomaly_detector.py (AnomalyDetector), with the settings   *)
(* of app/core/config.py.                                                  *)
(*                                                                         *)
(* Numbers are fixed point.  Amounts are whole currency units.  Feature    *)
(* values handed to the model are in units of 1/Res.  Raw outlier scores   *)
(* and fraud probabilities are in units of 1/Unit (1e-5); the fraud_score  *)
(* stored in a response is in units of 1e-4, since the code rounds it to   *)
(* four decimal places.                                                    *)
(***************************************************************************)
EXTENDS Integers, Sequences, FiniteSets, TLC

(* ----------------------------- bounds ---------------------------------- *)
\* longest batch handed to detect_batch
MaxBatch == 2
\* number of load_model runs followed in one behaviour
MaxLoads == 3

(* ------------------------ fixed-point scales --------------------------- *)
Res == 100
Unit == 100000
RoundStep == 10

(* ------------------------------ values --------------------------------- *)
\* Python's None, for a model, a scaler or an optional text field
NoneVal == [kind |-> "None"]
NoText == "<None>"

Zero4 == <<0, 0, 0, 0>>

\* IsolationForest(contamination=0.1, random_state=42, n_estimators=100),
\* constructed and never fitted
FreshModel ==
  [kind |-> "IsolationForest", fitted |-> FALSE, contaminationPct |-> 10,
   random_state |-> 42, n_estimators |-> 100,
   base |-> 0, w |-> Zero4, offset |-> 0]

\* a fitted estimator as found in an artifact: its score is an affine
\* function of the feature row, its label the sign of score - offset
FittedModel(b, ww, off) ==
  [kind |-> "IsolationForest", fitted |-> TRUE, contaminationPct |-> 10,
   random_state |-> 42, n_estimators |-> 100,
   base |-> b, w |-> ww, offset |-> off]

ModelA == FittedModel(-45123, <<-317, 2, -1, 1>>, -55000)
ModelB == FittedModel(61237, <<-150, 0, 3, 0>>, 60000)
ModelC == FittedModel(-20004, <<-1, 0, 0, 0>>, -22000)

\* StandardScaler(): n_samples_seen_, and the column sums and sums of
\* squares from which mean_, var_ and scale_ derive
FreshScaler == [kind |-> "StandardScaler", fitted |-> FALSE, n |-> 0,
                sum |-> Zero4, sq |-> Zero4]
TrainedScaler == [kind |-> "StandardScaler", fitted |-> TRUE, n |-> 4,
                  sum |-> <<400, 800, 120, 1600>>,
                  sq |-> <<50000, 200000, 4000, 700000>>]

(* ---------------------------- artifacts -------------------------------- *)
Paths == {"models/isolation_forest_model.joblib", "legacy.joblib",
          "noscaler.joblib", "nomodel.joblib", "corrupt.joblib",
          "missing.joblib"}

\* the values of the environment's MODEL_PATH followed (config.py, 20-23)
DefaultPaths == {"models/isolation_forest_model.joblib", "nomodel.joblib",
                 "missing.joblib"}

\* what os.path.exists and joblib.load find at a path
Artifact(path) ==
  CASE path = "models/isolation_forest_model.joblib" ->
         [form |-> "dict", model |-> ModelA, scaler |-> TrainedScaler]
    [] path = "legacy.joblib" ->
         [form |-> "bare", model |-> ModelB, scaler |-> NoneVal]
    [] path = "noscaler.joblib" ->
         [form |-> "dict", model |-> ModelC, scaler |-> NoneVal]
    [] path = "nomodel.joblib" ->
         [form |-> "dict", model |-> NoneVal, scaler |-> TrainedScaler]
    [] path = "corrupt.joblib" ->
         [form |-> "corrupt", model |-> NoneVal, scaler |-> NoneVal]
    [] OTHER ->
         [form |-> "missing", model |-> NoneVal, scaler |-> NoneVal]

(* --------------------------- transactions ------------------------------ *)
Tx(a, m, c, u) == [amount |-> a, merchant |-> m, category |-> c,
                   customer_id |-> u]

TxSet == {Tx(10, NoText, NoText, NoText),
          Tx(5000, "acme", "food", "c7"),
          Tx(12, "acme", NoText, "")}

RECURSIVE SeqsUpTo(_, _)
SeqsUpTo(S, n) ==
  IF n = 0 THEN {<<>>}
  ELSE LET shorter == SeqsUpTo(S, n - 1)
       IN shorter \cup {Append(s, x) : s \in {q \in shorter : Len(q) = n - 1},
                                        x \in S}

Batches == SeqsUpTo(TxSet, MaxBatch)

(* ------------------------ feature extraction --------------------------- *)
\* hash(str(x)) of this process
Hash(s) ==
  CASE s = "acme" -> 7304217
    [] s = "food" -> -2958
    [] s = "c7" -> -95
    [] OTHER -> 5381

Truthy(s) == s # NoText /\ s # ""

ExtractFeatures(tx) ==
  << tx.amount,
     IF Truthy(tx.merchant) THEN Hash(tx.merchant) % 1000 ELSE 0,
     IF Truthy(tx.category) THEN Hash(tx.category) % 100 ELSE 0,
     IF Truthy(tx.customer_id) THEN Hash(tx.customer_id) % 1000 ELSE 0 >>

\* the feature matrix handed to the scaler and the model, in units of 1/Res
ToFixed(rows) == [i \in 1..Len(rows) |-> [j \in 1..4 |-> rows[i][j] * Res]]

(* ------------------------------ scaler --------------------------------- *)
RECURSIVE SumCol(_, _, _)
SumCol(rows, j, i) ==
  IF i = 0 THEN 0 ELSE rows[i][j] + SumCol(rows, j, i - 1)

RECURSIVE SumSqCol(_, _, _)
SumSqCol(rows, j, i) ==
  IF i = 0 THEN 0 ELSE rows[i][j] * rows[i][j] + SumSqCol(rows, j, i - 1)

RECURSIVE SqrtSearch(_, _, _)
SqrtSearch(v, lo, hi) ==
  IF lo >= hi THEN lo
  ELSE LET mid == (lo + hi + 1) \div 2
       IN IF mid * mid <= v THEN SqrtSearch(v, mid, hi)
          ELSE SqrtSearch(v, lo, mid - 1)

ISqrt(v) == SqrtSearch(v, 0, 46340)

\* division rounding toward zero
Div(a, b) == IF a >= 0 THEN a \div b ELSE -((-a) \div b)

\* StandardScaler.fit on the accumulating variant: partial_fit without reset
FitAccumulate(s, rows) ==
  [kind |-> "StandardScaler", fitted |-> TRUE, n |-> s.n + Len(rows),
   sum |-> [j \in 1..4 |-> s.sum[j] + SumCol(rows, j, Len(rows))],
   sq |-> [j \in 1..4 |-> s.sq[j] + SumSqCol(rows, j, Len(rows))]]

\* StandardScaler.fit: resets the scaler, then takes the statistics of rows
Fit(s, rows) ==
  [kind |-> "StandardScaler", fitted |-> TRUE, n |-> Len(rows),
   sum |-> [j \in 1..4 |-> SumCol(rows, j, Len(rows))],
   sq |-> [j \in 1..4 |-> SumSqCol(rows, j, Len(rows))]]

\* scale_ times n: sqrt(var_) with a zero variance replaced by 1
ScaleN(s, j) ==
  LET varn2 == s.n * s.sq[j] - s.sum[j] * s.sum[j]
      r == ISqrt(varn2)
  IN IF r = 0 THEN s.n ELSE r

\* the transform of a scaler that divides by scale_ without centring
TransformNoCentring(s, rows) ==
  [i \in 1..Len(rows) |->
     [j \in 1..4 |-> Div(s.n * rows[i][j] * Res, ScaleN(s, j))]]

\* StandardScaler.transform: (x - mean_) / scale_, in units of 1/Res
Transform(s, rows) ==
  [i \in 1..Len(rows) |->
     [j \in 1..4 |-> Div((s.n * rows[i][j] - s.sum[j]) * Res, ScaleN(s, j))]]

(* ------------------------------ model ---------------------------------- *)
\* IsolationForest.score_samples for one row, in units of 1/Unit
ScoreRow(m, row) ==
  m.base + m.w[1] * row[1] + m.w[2] * row[2] + m.w[3] * row[3]
         + m.w[4] * row[4]

ScoreSamples(m, X) == [i \in 1..Len(X) |-> ScoreRow(m, X[i])]

\* IsolationForest.predict: -1 where score_samples - offset_ < 0, else 1
PredictModel(m, X) ==
  [i \in 1..Len(X) |-> IF ScoreRow(m, X[i]) - m.offset < 0 THEN -1 ELSE 1]

(* ----------------------- normaliser and policy ------------------------- *)
\* lines 131/174 without the clamp of lines 132/175
NormalizeUnclamped(raw) == Unit - (raw + Unit \div 2)

\* lines 131-132 and 174-175: 1 - (raw + 0.5) / 1.0, clamped to [0, 1]
Normalize(raw) ==
  LET p == Unit - (raw + Unit \div 2)
  IN IF p < 0 THEN 0 ELSE IF p > Unit THEN Unit ELSE p

\* the verdict with the two signals conjoined
DecideBoth(label, p, threshold) == label = -1 /\ p >= threshold

\* the verdict with the comparison turned around
DecideReversed(label, p, threshold) == label = -1 \/ p <= threshold

\* lines 135 and 177
Decide(label, p, threshold) == label = -1 \/ p >= threshold

\* round(fraud_score, 4): to the nearest 1e-4, ties to even
Round4(p) ==
  LET q == p \div RoundStep
      r == p % RoundStep
  IN IF 2 * r < RoundStep THEN q
     ELSE IF 2 * r > RoundStep THEN q + 1
     ELSE IF q % 2 = 0 THEN q ELSE q + 1

\* hash(str(transaction)) % 1000000
TxId(tx) ==
  (tx.amount * 31 + Hash(tx.merchant) * 7 + Hash(tx.category) * 3
   + Hash(tx.customer_id)) % 1000000

\* the TransactionResponse of lines 138-147 and 179-188 (the timestamp, a
\* reading of the clock, is left out)
Response(tx, label, raw, threshold) ==
  [id |-> TxId(tx), amount |-> tx.amount, merchant |-> tx.merchant,
   category |-> tx.category, customer_id |-> tx.customer_id,
   is_fraud |-> Decide(label, Normalize(raw), threshold),
   fraud_score |-> Round4(Normalize(raw))]

\* the loop of lines 172-188 reading one row for every transaction
BuildResultsFirstRow(txs, labels, raws, threshold) ==
  [i \in 1..Len(txs) |-> Response(txs[i], labels[1], raws[1], threshold)]

\* the loop of lines 172-188
BuildResults(txs, labels, raws, threshold) ==
  [i \in 1..Len(txs) |-> Response(txs[i], labels[i], raws[i], threshold)]

(* ------------------------------- state --------------------------------- *)
Threads == {1, 2}

VARIABLES
  _model,          \* AnomalyDetector._model
  _scaler,         \* AnomalyDetector._scaler
  _model_loaded,   \* AnomalyDetector._model_loaded
  MODEL_PATH,      \* settings.MODEL_PATH
  FRAUD_THRESHOLD, \* settings.FRAUD_THRESHOLD
  pc,              \* per thread: the statement it is at
  op,              \* per thread: the method it was called with
  transactions,    \* per thread: argument of detect / detect_batch
  model_path,      \* per thread: argument of load_model
  features,        \* per thread: features / features_array
  features_scaled, \* per thread: features_scaled
  predictions,     \* per thread: predictions
  anomaly_scores,  \* per thread: anomaly_scores
  ret,             \* per thread: what the call returned or raised
  pre,             \* per thread: the registry when the call began
  ranLoad,         \* per thread: whether this call ran load_model
  loadRuns,        \* how many times load_model has run
  explicitLoad,    \* whether load_model was ever called from outside
  epoch,           \* per registry field: the load_model run that wrote it
  seen,            \* per thread: the epochs of the fields the call read
  probe,           \* a detect_batch call remembered since the last load
  request          \* per thread: the HTTP request being served, if any

vars == << _model, _scaler, _model_loaded, MODEL_PATH, FRAUD_THRESHOLD, pc,
           op, transactions, model_path, features, features_scaled,
           predictions, anomaly_scores, ret, pre, ranLoad, loadRuns,
           explicitLoad, epoch, seen, probe, request >>

config == << MODEL_PATH, FRAUD_THRESHOLD >>
locals == << features, features_scaled, predictions, anomaly_scores >>

Registry == [model |-> _model, scaler |-> _scaler, loaded |-> _model_loaded]
NoRegistry == [model |-> NoneVal, scaler |-> NoneVal, loaded |-> FALSE]

\* is_model_loaded, lines 81-83
IsModelLoaded(reg) == reg.loaded /\ reg.model # NoneVal

is_model_loaded == IsModelLoaded(Registry)

NoRet == [kind |-> "none"]
Returned(v) == [kind |-> "return", value |-> v]
Raised(e) == [kind |-> "raise", error |-> e]

NoSeen == [run |-> -1, flag |-> -1, model0 |-> -1, scaler |-> -1,
           model1 |-> -1, model2 |-> -1]
NoProbe == [set |-> FALSE, batch |-> <<>>, results |-> <<>>, others |-> FALSE]

Thresholds == {Unit \div 2, 97000}

NoFile == [filename |-> <<>>, empty |-> TRUE, columns |-> {}, rows |-> <<>>]
NoRequest == [route |-> "none", file |-> NoFile, invoked |-> FALSE,
              status_code |-> 0]

Init ==
  /\ _model = NoneVal
  /\ _scaler = NoneVal
  /\ _model_loaded = FALSE
  /\ MODEL_PATH \in DefaultPaths
  /\ FRAUD_THRESHOLD \in Thresholds
  /\ pc = [t \in Threads |-> "idle"]
  /\ op = [t \in Threads |-> "none"]
  /\ transactions = [t \in Threads |-> <<>>]
  /\ model_path = [t \in Threads |-> NoText]
  /\ features = [t \in Threads |-> <<>>]
  /\ features_scaled = [t \in Threads |-> <<>>]
  /\ predictions = [t \in Threads |-> <<>>]
  /\ anomaly_scores = [t \in Threads |-> <<>>]
  /\ ret = [t \in Threads |-> NoRet]
  /\ pre = [t \in Threads |-> NoRegistry]
  /\ ranLoad = [t \in Threads |-> FALSE]
  /\ loadRuns = 0
  /\ explicitLoad = FALSE
  /\ epoch = [model |-> 0, scaler |-> 0, loaded |-> 0]
  /\ seen = [t \in Threads |-> NoSeen]
  /\ probe = NoProbe
  /\ request = [t \in Threads |-> NoRequest]

(* ------------------------------ calls ---------------------------------- *)
Begin(t, o, txs, path) ==
  /\ pc[t] = "idle"
  /\ op' = [op EXCEPT ![t] = o]
  /\ transactions' = [transactions EXCEPT ![t] = txs]
  /\ model_path' = [model_path EXCEPT ![t] = path]
  /\ features' = [features EXCEPT ![t] = <<>>]
  /\ features_scaled' = [features_scaled EXCEPT ![t] = <<>>]
  /\ predictions' = [predictions EXCEPT ![t] = <<>>]
  /\ anomaly_scores' = [anomaly_scores EXCEPT ![t] = <<>>]
  /\ ret' = [ret EXCEPT ![t] = NoRet]
  /\ pre' = [pre EXCEPT ![t] = Registry]
  /\ ranLoad' = [ranLoad EXCEPT ![t] = FALSE]
  /\ seen' = [seen EXCEPT ![t] = NoSeen]
  /\ UNCHANGED << _model, _scaler, _model_loaded, config, request, loadRuns, epoch,
                  probe >>

\* a caller (the startup hook of main.py, a reload) calls load_model(path);
\* NoText stands for the omitted argument
CallLoadModel(t, path) ==
  /\ loadRuns < MaxLoads
  /\ Begin(t, "load_model", <<>>, path)
  /\ pc' = [pc EXCEPT ![t] = "load"]
  /\ explicitLoad' = TRUE

CallDetect(t, tx) ==
  /\ is_model_loaded \/ loadRuns < MaxLoads
  /\ Begin(t, "detect", <<tx>>, NoText)
  /\ pc' = [pc EXCEPT ![t] = "check"]
  /\ UNCHANGED explicitLoad

CallDetectBatch(t, txs) ==
  /\ is_model_loaded \/ loadRuns < MaxLoads
  /\ Begin(t, "detect_batch", txs, NoText)
  /\ pc' = [pc EXCEPT ![t] = "check"]
  /\ UNCHANGED explicitLoad

(* ---------------------------- load_model ------------------------------- *)
\* line 42: model_path or settings.MODEL_PATH
EffectivePath(path, default) ==
  IF path = NoText \/ path = "" THEN default ELSE path

\* the fallback taken for a missing artifact only
UsesFallbackIfMissing(art) == art.form = "missing"

\* lines 46, 60-63 and 67-69: no artifact at the path, or loading it raised
UsesFallback(art) == art.form \in {"missing", "corrupt"}

\* line 52 for a bundle, line 56 for a bare model
LoadedScaler(art) == IF art.form = "dict" THEN art.scaler ELSE FreshScaler

\* lines 42-55: up to and including the assignment of self._model
LoadModelBegin(t) ==
  /\ pc[t] = "load"
  /\ LET art == Artifact(EffectivePath(model_path[t], MODEL_PATH))
     IN IF UsesFallback(art)
        THEN /\ pc' = [pc EXCEPT ![t] = "init_model"]
             /\ UNCHANGED << _model, epoch >>
        ELSE /\ _model' = art.model
             /\ epoch' = [epoch EXCEPT !.model = loadRuns + 1]
             /\ pc' = [pc EXCEPT ![t] = "load_scaler"]
  /\ loadRuns' = loadRuns + 1
  /\ seen' = [seen EXCEPT ![t].run = loadRuns + 1]
  /\ probe' = NoProbe
  /\ UNCHANGED << _scaler, _model_loaded, config, request, op, transactions,
                  model_path, locals, ret, pre, ranLoad, explicitLoad >>

\* lines 52 and 56: the assignment of self._scaler
LoadModelScaler(t) ==
  /\ pc[t] = "load_scaler"
  /\ _scaler' = LoadedScaler(Artifact(EffectivePath(model_path[t], MODEL_PATH)))
  /\ epoch' = [epoch EXCEPT !.scaler = seen[t].run]
  /\ pc' = [pc EXCEPT ![t] = "set_loaded"]
  /\ UNCHANGED << _model, _model_loaded, config, request, op, transactions, model_path,
                  locals, ret, pre, ranLoad, loadRuns, explicitLoad, seen,
                  probe >>

\* _initialize_model, lines 74-78
InitializeModel(t) ==
  /\ pc[t] = "init_model"
  /\ _model' = FreshModel
  /\ epoch' = [epoch EXCEPT !.model = seen[t].run]
  /\ pc' = [pc EXCEPT ![t] = "init_scaler"]
  /\ UNCHANGED << _scaler, _model_loaded, config, request, op, transactions, model_path,
                  locals, ret, pre, ranLoad, loadRuns, explicitLoad, seen,
                  probe >>

\* _initialize_model, line 79
InitializeScaler(t) ==
  /\ pc[t] = "init_scaler"
  /\ _scaler' = FreshScaler
  /\ epoch' = [epoch EXCEPT !.scaler = seen[t].run]
  /\ pc' = [pc EXCEPT ![t] = "set_loaded"]
  /\ UNCHANGED << _model, _model_loaded, config, request, op, transactions, model_path,
                  locals, ret, pre, ranLoad, loadRuns, explicitLoad, seen,
                  probe >>

\* lines 58, 64 and 70, and the return of load_model to its caller
LoadModelEnd(t) ==
  /\ pc[t] = "set_loaded"
  /\ _model_loaded' = TRUE
  /\ epoch' = [epoch EXCEPT !.loaded = seen[t].run]
  /\ ranLoad' = [ranLoad EXCEPT ![t] = TRUE]
  /\ IF op[t] = "load_model"
     THEN /\ pc' = [pc EXCEPT ![t] = "done"]
          /\ ret' = [ret EXCEPT ![t] = Returned(NoneVal)]
     ELSE /\ pc' = [pc EXCEPT ![t] = "extract"]
          /\ UNCHANGED ret
  /\ UNCHANGED << _model, _scaler, config, request, op, transactions, model_path,
                  locals, pre, loadRuns, explicitLoad, seen, probe >>

(* ----------------------- detect and detect_batch ----------------------- *)
\* lines 111 and 153
NeedsLoad(reg) == ~reg.loaded \/ reg.model = NoneVal

\* lines 111-112 and 153-154
CheckLoaded(t) ==
  /\ pc[t] = "check"
  /\ seen' = [seen EXCEPT ![t].flag = epoch.loaded, ![t].model0 = epoch.model]
  /\ IF NeedsLoad(Registry)
     THEN pc' = [pc EXCEPT ![t] = "load"]
     ELSE pc' = [pc EXCEPT ![t] = "extract"]
  /\ UNCHANGED << _model, _scaler, _model_loaded, config, request, op, transactions,
                  model_path, locals, ret, pre, ranLoad, loadRuns,
                  explicitLoad, epoch, probe >>

\* np.vstack of a list of arrays that never raises
VStackRaisesNever(features_list) == FALSE

\* line 158: np.vstack raises ValueError on an empty list of arrays
VStackRaises(features_list) == Len(features_list) = 0

\* lines 115 and 157-158
Extract(t) ==
  /\ pc[t] = "extract"
  /\ LET features_list ==
           [i \in 1..Len(transactions[t]) |->
              ExtractFeatures(transactions[t][i])]
     IN IF op[t] = "detect_batch" /\ VStackRaises(features_list)
        THEN /\ ret' = [ret EXCEPT ![t] = Raised("ValueError")]
             /\ pc' = [pc EXCEPT ![t] = "done"]
             /\ UNCHANGED features
        ELSE /\ features' = [features EXCEPT ![t] = features_list]
             /\ pc' = [pc EXCEPT ![t] = "scale"]
             /\ UNCHANGED ret
  /\ UNCHANGED << _model, _scaler, _model_loaded, config, request, op, transactions,
                  model_path, features_scaled, predictions, anomaly_scores,
                  pre, ranLoad, loadRuns, explicitLoad, epoch, seen, probe, request >>

\* lines 118-121 and 161-164: fit_transform refits the registry's scaler on
\* the matrix being scored and transforms the matrix with it
Scale(t) ==
  /\ pc[t] = "scale"
  /\ IF _scaler # NoneVal
     THEN /\ _scaler' = Fit(_scaler, features[t])
          /\ features_scaled' =
               [features_scaled EXCEPT ![t] = Transform(_scaler', features[t])]
     ELSE /\ features_scaled' =
               [features_scaled EXCEPT ![t] = ToFixed(features[t])]
          /\ UNCHANGED _scaler
  /\ seen' = [seen EXCEPT ![t].scaler = epoch.scaler]
  /\ pc' = [pc EXCEPT ![t] = "predict"]
  /\ UNCHANGED << _model, _model_loaded, config, request, op, transactions, model_path,
                  features, predictions, anomaly_scores, ret, pre, ranLoad,
                  loadRuns, explicitLoad, epoch, probe >>

\* what calling predict or score_samples on self._model raises, if anything:
\* None has no such method, an unfitted IsolationForest refuses
ModelError(m) ==
  IF m = NoneVal THEN "AttributeError"
  ELSE IF ~m.fitted THEN "NotFittedError"
  ELSE "none"

\* lines 124 and 167
Predict(t) ==
  /\ pc[t] = "predict"
  /\ seen' = [seen EXCEPT ![t].model1 = epoch.model]
  /\ IF ModelError(_model) # "none"
     THEN /\ ret' = [ret EXCEPT ![t] = Raised(ModelError(_model))]
          /\ pc' = [pc EXCEPT ![t] = "done"]
          /\ UNCHANGED predictions
     ELSE /\ predictions' =
               [predictions EXCEPT ![t] = PredictModel(_model, features_scaled[t])]
          /\ pc' = [pc EXCEPT ![t] = "score"]
          /\ UNCHANGED ret
  /\ UNCHANGED << _model, _scaler, _model_loaded, config, request, op, transactions,
                  model_path, features, features_scaled, anomaly_scores, pre,
                  ranLoad, loadRuns, explicitLoad, epoch, probe >>

\* lines 127 and 168
Score(t) ==
  /\ pc[t] = "score"
  /\ seen' = [seen EXCEPT ![t].model2 = epoch.model]
  /\ IF ModelError(_model) # "none"
     THEN /\ ret' = [ret EXCEPT ![t] = Raised(ModelError(_model))]
          /\ pc' = [pc EXCEPT ![t] = "done"]
          /\ UNCHANGED anomaly_scores
     ELSE /\ anomaly_scores' =
               [anomaly_scores EXCEPT ![t] = ScoreSamples(_model, features_scaled[t])]
          /\ pc' = [pc EXCEPT ![t] = "build"]
          /\ UNCHANGED ret
  /\ UNCHANGED << _model, _scaler, _model_loaded, config, request, op, transactions,
                  model_path, features, features_scaled, predictions, pre,
                  ranLoad, loadRuns, explicitLoad, epoch, probe >>

\* lines 129-147 (one response) and 170-190 (the list of responses)
Build(t) ==
  /\ pc[t] = "build"
  /\ LET results == BuildResults(transactions[t], predictions[t],
                                 anomaly_scores[t], FRAUD_THRESHOLD)
     IN ret' = [ret EXCEPT ![t] = IF op[t] = "detect"
                                   THEN Returned(results[1])
                                   ELSE Returned(results)]
  /\ pc' = [pc EXCEPT ![t] = "done"]
  /\ UNCHANGED << _model, _scaler, _model_loaded, config, request, op, transactions,
                  model_path, locals, pre, ranLoad, loadRuns, explicitLoad,
                  epoch, seen, probe >>

\* the call is over and its frame is gone
Return(t) ==
  /\ pc[t] = "done"
  /\ request[t].route = "none"
  /\ pc' = [pc EXCEPT ![t] = "idle"]
  /\ op' = [op EXCEPT ![t] = "none"]
  /\ transactions' = [transactions EXCEPT ![t] = <<>>]
  /\ model_path' = [model_path EXCEPT ![t] = NoText]
  /\ features' = [features EXCEPT ![t] = <<>>]
  /\ features_scaled' = [features_scaled EXCEPT ![t] = <<>>]
  /\ predictions' = [predictions EXCEPT ![t] = <<>>]
  /\ anomaly_scores' = [anomaly_scores EXCEPT ![t] = <<>>]
  /\ ret' = [ret EXCEPT ![t] = NoRet]
  /\ pre' = [pre EXCEPT ![t] = NoRegistry]
  /\ ranLoad' = [ranLoad EXCEPT ![t] = FALSE]
  /\ seen' = [seen EXCEPT ![t] = NoSeen]
  /\ UNCHANGED << _model, _scaler, _model_loaded, config, request, loadRuns,
                  explicitLoad, epoch >>

\* the call is over
Finish(t) ==
  /\ probe' = IF probe.set /\ op[t] \in {"detect", "detect_batch"}
                 /\ transactions[t] # probe.batch
              THEN [probe EXCEPT !.others = TRUE]
              ELSE probe
  /\ Return(t)

\* the call is over, and the caller keeps what detect_batch returned to
\* compare it with a later call on the same batch
FinishAndKeep(t) ==
  /\ op[t] = "detect_batch"
  /\ ret[t].kind = "return"
  /\ ~probe.set
  /\ probe' = [set |-> TRUE, batch |-> transactions[t],
               results |-> ret[t].value, others |-> FALSE]
  /\ Return(t)

(* ------------------- the upload route (routes.py) ---------------------- *)
\* str.endswith, on file names spelt as sequences of characters
EndsWith(name, suffix) ==
  /\ Len(name) >= Len(suffix)
  /\ SubSeq(name, Len(name) - Len(suffix) + 1, Len(name)) = suffix

DotCsv == << ".", "c", "s", "v" >>

\* line 43: not file.filename or not file.filename.endswith('.csv')
NotCsvName(name) == Len(name) = 0 \/ ~EndsWith(name, DotCsv)

\* lines 62-67: the TransactionCreate of a row of the frame; an absent
\* column gives None, and '' for customer_id
ToTransactionCreate(row, columns) ==
  Tx(row.amount,
     IF "merchant" \in columns THEN row.merchant ELSE NoText,
     IF "category" \in columns THEN row.category ELSE NoText,
     IF "customer_id" \in columns THEN row.customer_id ELSE "")

\* what the body of the try block raises before it calls detect_batch
\* (lines 43-67): the HTTPException of line 44 or 54, pandas' EmptyDataError
\* from read_csv, the validation error of amount (gt=0), or nothing
UploadRaises(file) ==
  IF NotCsvName(file.filename) THEN "HTTPException(400)"
  ELSE IF file.empty THEN "EmptyDataError"
  ELSE IF "amount" \notin file.columns THEN "HTTPException(400)"
  ELSE IF \E i \in 1..Len(file.rows) : file.rows[i].amount <= 0
       THEN "ValidationError"
  ELSE "none"

\* lines 83-86: the status the except clauses answer with; HTTPException
\* is an Exception, so the clause of line 85 takes the route's own 400s too
ExceptStatus(exc) == IF exc = "EmptyDataError" THEN 400 ELSE 500

CsvRow(a) == [amount |-> a, merchant |-> "acme", category |-> "food",
              customer_id |-> "c7"]

UploadFiles ==
  { [filename |-> << "a", ".", "t", "x", "t" >>, empty |-> FALSE,
     columns |-> {"amount"}, rows |-> << CsvRow(10) >>],
    [filename |-> <<>>, empty |-> FALSE,
     columns |-> {"amount"}, rows |-> << CsvRow(10) >>],
    [filename |-> << "a", ".", "C", "S", "V" >>, empty |-> FALSE,
     columns |-> {"amount"}, rows |-> << CsvRow(10) >>],
    [filename |-> << "a", ".", "c", "s", "v" >>, empty |-> FALSE,
     columns |-> {"merchant", "category"}, rows |-> << CsvRow(10) >>],
    [filename |-> << "a", ".", "c", "s", "v" >>, empty |-> TRUE,
     columns |-> {}, rows |-> <<>>],
    [filename |-> << "a", ".", "c", "s", "v" >>, empty |-> FALSE,
     columns |-> {"amount"}, rows |-> <<>>],
    [filename |-> << "a", ".", "c", "s", "v" >>, empty |-> FALSE,
     columns |-> {"amount"}, rows |-> << CsvRow(0) >>],
    [filename |-> << "a", ".", "c", "s", "v" >>, empty |-> FALSE,
     columns |-> {"amount", "merchant"},
     rows |-> << CsvRow(10), CsvRow(5000) >>] }

\* POST /api/v1/upload arrives (lines 33-37)
CallUpload(t, file) ==
  /\ pc[t] = "idle"
  /\ is_model_loaded \/ loadRuns < MaxLoads
  /\ pc' = [pc EXCEPT ![t] = "upload"]
  /\ request' = [request EXCEPT ![t] = [route |-> "upload", file |-> file,
                                        invoked |-> FALSE, status_code |-> 0]]
  /\ UNCHANGED << _model, _scaler, _model_loaded, config, op, transactions,
                  model_path, locals, ret, pre, ranLoad, loadRuns,
                  explicitLoad, epoch, seen, probe >>

\* lines 41-70 and 83-86: the route validates the file and either answers
\* through an except clause or calls detector.detect_batch(transactions)
UploadHandle(t) ==
  /\ pc[t] = "upload"
  /\ LET file == request[t].file
         exc == UploadRaises(file)
     IN IF exc # "none"
        THEN /\ request' = [request EXCEPT ![t].status_code = ExceptStatus(exc)]
             /\ pc' = [pc EXCEPT ![t] = "responded"]
             /\ UNCHANGED << op, transactions, pre >>
        ELSE /\ request' = [request EXCEPT ![t].invoked = TRUE]
             /\ op' = [op EXCEPT ![t] = "detect_batch"]
             /\ transactions' =
                  [transactions EXCEPT ![t] =
                     [i \in 1..Len(file.rows) |->
                        ToTransactionCreate(file.rows[i], file.columns)]]
             /\ pre' = [pre EXCEPT ![t] = Registry]
             /\ pc' = [pc EXCEPT ![t] = "check"]
  /\ UNCHANGED << _model, _scaler, _model_loaded, config, model_path, locals,
                  ret, ranLoad, loadRuns, explicitLoad, epoch, seen, probe >>

\* lines 72-81 after detect_batch returned, lines 85-86 after it raised
UploadRespond(t) ==
  /\ pc[t] = "done"
  /\ request[t].route = "upload"
  /\ request' = [request EXCEPT ![t].status_code =
                   IF ret[t].kind = "return" THEN 200
                   ELSE ExceptStatus(ret[t].error)]
  /\ pc' = [pc EXCEPT ![t] = "responded"]
  /\ UNCHANGED << _model, _scaler, _model_loaded, config, op, transactions,
                  model_path, locals, ret, pre, ranLoad, loadRuns,
                  explicitLoad, epoch, seen, probe >>

\* the response is sent and the request is over
UploadReturn(t) ==
  /\ pc[t] = "responded"
  /\ pc' = [pc EXCEPT ![t] = "idle"]
  /\ request' = [request EXCEPT ![t] = NoRequest]
  /\ op' = [op EXCEPT ![t] = "none"]
  /\ transactions' = [transactions EXCEPT ![t] = <<>>]
  /\ features' = [features EXCEPT ![t] = <<>>]
  /\ features_scaled' = [features_scaled EXCEPT ![t] = <<>>]
  /\ predictions' = [predictions EXCEPT ![t] = <<>>]
  /\ anomaly_scores' = [anomaly_scores EXCEPT ![t] = <<>>]
  /\ ret' = [ret EXCEPT ![t] = NoRet]
  /\ pre' = [pre EXCEPT ![t] = NoRegistry]
  /\ ranLoad' = [ranLoad EXCEPT ![t] = FALSE]
  /\ seen' = [seen EXCEPT ![t] = NoSeen]
  /\ UNCHANGED << _model, _scaler, _model_loaded, config, model_path,
                  loadRuns, explicitLoad, epoch, probe >>

UploadStep(t) ==
  \/ \E file \in UploadFiles : CallUpload(t, file)
  \/ UploadHandle(t)
  \/ UploadRespond(t)
  \/ UploadReturn(t)

(* ------------------------- specifications ------------------------------ *)
LoadModelStep(t) ==
  \/ LoadModelBegin(t)
  \/ LoadModelScaler(t)
  \/ InitializeModel(t)
  \/ InitializeScaler(t)
  \/ LoadModelEnd(t)

ScoringStep(t) ==
  \/ CheckLoaded(t)
  \/ Extract(t)
  \/ Scale(t)
  \/ Predict(t)
  \/ Score(t)
  \/ Build(t)

Step(t) ==
  \/ \E path \in Paths \cup {NoText} : CallLoadModel(t, path)
  \/ \E tx \in TxSet : CallDetect(t, tx)
  \/ \E txs \in Batches : CallDetectBatch(t, txs)
  \/ LoadModelStep(t)
  \/ ScoringStep(t)
  \/ Finish(t)
  \/ UploadStep(t)

\* the calls served one at a time: the routes are coroutines that call the
\* detector without awaiting inside the call
Next == Step(1)

Spec == Init /\ [][Next]_vars

\* one configuration, one explicit load at most, and a caller that compares
\* the results of detect_batch calls
InitDet ==
  /\ Init
  /\ MODEL_PATH = "models/isolation_forest_model.joblib"
  /\ FRAUD_THRESHOLD = Unit \div 2

NextDet ==
  \/ \E path \in Paths \cup {NoText} : loadRuns = 0 /\ CallLoadModel(1, path)
  \/ \E tx \in TxSet : CallDetect(1, tx)
  \/ \E txs \in Batches : CallDetectBatch(1, txs)
  \/ LoadModelStep(1)
  \/ ScoringStep(1)
  \/ Finish(1)
  \/ FinishAndKeep(1)

SpecDet == InitDet /\ [][NextDet]_vars

ReloadPaths == {NoText, "noscaler.joblib", "missing.joblib"}

\* the registry shared by two threads: thread 1 scores while thread 2
\* reloads, their statements interleaved
NextConc ==
  \/ \E tx \in TxSet : CallDetect(1, tx)
  \/ \E txs \in Batches : CallDetectBatch(1, txs)
  \/ ScoringStep(1)
  \/ LoadModelStep(1)
  \/ Finish(1)
  \/ \E path \in ReloadPaths : loadRuns < 2 /\ CallLoadModel(2, path)
  \/ LoadModelStep(2)
  \/ Finish(2)

SpecConc == InitDet /\ [][NextConc]_vars

(* ------------------------------ claims --------------------------------- *)
Scoring(t) == op[t] \in {"detect", "detect_batch"}

\* a scoring call of thread t has returned its response(s)
ScoredAndReturned(t) ==
  pc[t] = "done" /\ Scoring(t) /\ ret[t].kind = "return"

\* the responses a returned scoring call carries, as a list
Responses(t) == IF op[t] = "detect" THEN << ret[t].value >> ELSE ret[t].value

\* the probability the specification prescribes for a raw score
ClaimedProbability(raw) ==
  IF 2 * raw >= Unit THEN 0
  ELSE IF 2 * raw <= -Unit THEN Unit
  ELSE Unit - raw - Unit \div 2

\* C1 as stated: the fraud_score of every response of detect and of
\* detect_batch lies in [0,1] and equals 1 - (raw + 0.5) clamped to [0,1]
\* exactly, for the raw score of its row.
C1_ScoreIsClampedValue ==
  \A t \in Threads :
    ScoredAndReturned(t) =>
      \A i \in 1..Len(Responses(t)) :
        /\ Responses(t)[i].fraud_score * RoundStep >= 0
        /\ Responses(t)[i].fraud_score * RoundStep <= Unit
        /\ Responses(t)[i].fraud_score * RoundStep
             = ClaimedProbability(anomaly_scores[t][i])

\* C1 amended: the fraud_score of every response lies in [0,1] and is
\* 1 - (raw + 0.5) clamped to [0,1] and then rounded to four decimal places
\* (it differs from the clamped value by at most half of 1e-4); a raw score
\* >= 0.5 gives 0 and a raw score <= -0.5 gives 1.
C1_ScoreIsRoundedClampedValue ==
  \A t \in Threads :
    ScoredAndReturned(t) =>
      \A i \in 1..Len(Responses(t)) :
        LET fs == Responses(t)[i].fraud_score * RoundStep
            raw == anomaly_scores[t][i]
            d == fs - ClaimedProbability(raw)
        IN /\ fs >= 0 /\ fs <= Unit
           /\ 2 * d <= RoundStep /\ -2 * d <= RoundStep
           /\ (2 * raw >= Unit => fs = 0)
           /\ (2 * raw <= -Unit => fs = Unit)

C1_Witness ==
  \E t \in Threads :
    /\ ScoredAndReturned(t)
    /\ \E i, j \in 1..Len(Responses(t)) :
         /\ 2 * anomaly_scores[t][i] > Unit
         /\ Responses(t)[i].fraud_score = 0
         /\ anomaly_scores[t][j] % RoundStep # 0
         /\ Responses(t)[j].fraud_score > 0

C3_VerdictIsLabelOrThreshold ==
  \A t \in Threads :
    ScoredAndReturned(t) =>
      \A i \in 1..Len(Responses(t)) :
        Responses(t)[i].is_fraud
          <=> (\/ predictions[t][i] = -1
               \/ ClaimedProbability(anomaly_scores[t][i]) >= FRAUD_THRESHOLD)

C3_Witness ==
  \E t \in Threads :
    /\ ScoredAndReturned(t)
    /\ \E i, j \in 1..Len(Responses(t)) :
         /\ predictions[t][i] = -1
         /\ ClaimedProbability(anomaly_scores[t][i]) < FRAUD_THRESHOLD
         /\ Responses(t)[i].is_fraud
         /\ predictions[t][j] = 1
         /\ ClaimedProbability(anomaly_scores[t][j]) < FRAUD_THRESHOLD
         /\ ~Responses(t)[j].is_fraud

\* a run of load_model by thread t has just completed: an explicit call has
\* returned, or the run made by a scoring call has handed back control
LoadCompleted(t) ==
  \/ pc[t] = "done" /\ op[t] = "load_model"
  \/ pc[t] = "extract" /\ Scoring(t) /\ ranLoad[t]

\* the artifact the completed run of thread t looked at
LoadedArtifact(t) == Artifact(EffectivePath(model_path[t], MODEL_PATH))

\* C4: when load_model runs on a path with no artifact, or with an artifact
\* whose deserialization fails, it returns normally and leaves a never-fitted
\* model with contamination 0.1, seed 42 and 100 estimators, a fresh scaler,
\* and the loaded flag set, so that is_model_loaded() is true, whatever the
\* registry was before.
C4_FallbackInstallsFreshModel ==
  \A t \in Threads :
    (LoadCompleted(t) /\ LoadedArtifact(t).form \in {"missing", "corrupt"}) =>
      /\ ret[t].kind # "raise"
      /\ op[t] = "load_model" => ret[t] = Returned(NoneVal)
      /\ _model.kind = "IsolationForest"
      /\ ~_model.fitted
      /\ _model.contaminationPct = 10
      /\ _model.random_state = 42
      /\ _model.n_estimators = 100
      /\ _scaler.kind = "StandardScaler"
      /\ ~_scaler.fitted /\ _scaler.n = 0
      /\ _model_loaded
      /\ is_model_loaded

C4_Witness ==
  \E t \in Threads :
    /\ pc[t] = "done" /\ op[t] = "load_model"
    /\ LoadedArtifact(t).form = "corrupt"
    /\ IsModelLoaded(pre[t])
    /\ pre[t].model.fitted
    /\ _model = FreshModel

\* C5: after any run of load_model completes, whatever the artifact,
\* is_model_loaded() is true.
C5_LoadedAfterLoad ==
  \A t \in Threads : LoadCompleted(t) => is_model_loaded

\* C6: a scoring call on an unloaded registry runs load_model before it
\* extracts features, a scoring call on a loaded registry does not run
\* load_model, and while nobody has called load_model from outside,
\* load_model has run at most once.
C6_ImplicitLoadAtMostOnce ==
  /\ \A t \in Threads :
       (Scoring(t) /\ pc[t] \in {"extract", "scale", "predict", "score",
                                 "build", "done"})
         => (ranLoad[t] <=> ~IsModelLoaded(pre[t]))
  /\ ~explicitLoad => loadRuns <= 1

\* the response of the route detect_fraud (routes.py, 97-113) to the outcome
\* of its detect_batch call
DetectFraudResponse(r) ==
  IF r.kind = "return"
  THEN [status_code |-> 200, results |-> r.value,
        total_transactions |-> Len(r.value)]
  ELSE [status_code |-> 500, results |-> <<>>, total_transactions |-> 0]

\* C7: detect_batch on an empty list ends in an error and returns no list,
\* and a detect_batch call that fails hands no responses to its caller: the
\* route answers 500 without results.
C7_EmptyBatchFails ==
  \A t \in Threads :
    (pc[t] = "done" /\ op[t] = "detect_batch") =>
      /\ Len(transactions[t]) = 0 =>
           /\ ret[t].kind = "raise"
           /\ DetectFraudResponse(ret[t]).status_code = 500
      /\ ret[t].kind = "raise" =>
           /\ DetectFraudResponse(ret[t]).results = <<>>
           /\ DetectFraudResponse(ret[t]).status_code = 500
      /\ ret[t].kind = "return" =>
           Len(ret[t].value) = Len(transactions[t])

C7_Witness ==
  \E t \in Threads :
    /\ pc[t] = "done" /\ op[t] = "detect_batch"
    /\ transactions[t] = <<>>
    /\ IsModelLoaded(Registry) /\ _model.fitted
    /\ ret[t] = Raised("ValueError")

\* C8: the registry fields a scoring call reads all come from one and the
\* same run of load_model: the scaler it scales with and the model it asks
\* for labels and for scores, and, when the call found the registry loaded,
\* the flag and the model it tested as well.
C8_ScoringReadsOneTriple ==
  \A t \in Threads :
    (Scoring(t) /\ pc[t] \in {"build", "done"} /\ seen[t].model2 # -1) =>
      /\ seen[t].scaler = seen[t].model1
      /\ seen[t].model1 = seen[t].model2
      /\ ~ranLoad[t] => /\ seen[t].flag = seen[t].model0
                        /\ seen[t].model0 = seen[t].scaler

\* C9: a scoring call on a loaded registry leaves the model, the scaler with
\* its statistics, and the loaded flag as they were when the call began.
C9_ScoringLeavesRegistry ==
  \A t \in Threads :
    (Scoring(t) /\ pc[t] = "done" /\ IsModelLoaded(pre[t])) =>
      Registry = pre[t]

\* C10: with no load_model run in between, a detect_batch call on a batch
\* returns, position by position, the fraud_score and is_fraud that an
\* earlier detect_batch call on the same batch returned, whatever calls were
\* made between the two.
C10_BatchDeterministic ==
  \A t \in Threads :
    (pc[t] = "done" /\ op[t] = "detect_batch" /\ probe.set
       /\ probe.batch = transactions[t]) =>
      /\ ret[t].kind = "return"
      /\ Len(ret[t].value) = Len(probe.results)
      /\ \A i \in 1..Len(probe.results) :
           /\ ret[t].value[i].fraud_score = probe.results[i].fraud_score
           /\ ret[t].value[i].is_fraud = probe.results[i].is_fraud

C10_Witness ==
  \E t \in Threads :
    /\ pc[t] = "done" /\ op[t] = "detect_batch" /\ probe.set
    /\ probe.batch = transactions[t]
    /\ probe.others
    /\ Len(probe.results) >= 2
    /\ probe.results[1].fraud_score # probe.results[2].fraud_score
    /\ _scaler # NoneVal

\* thresholds a deployment may configure, between 0 and 1
ThresholdGrid == {0, 30000, Unit \div 2, 80000, 97000, Unit}

\* C11 as stated: with the label and the probability of a response fixed, a
\* verdict that is fraud purely because probability >= threshold stays
\* fraud at every higher threshold.
C11_RaisingKeepsProbabilityFraud ==
  \A t \in Threads :
    ScoredAndReturned(t) =>
      \A i \in 1..Len(Responses(t)) :
        LET label == predictions[t][i]
            p == Normalize(anomaly_scores[t][i])
        IN (Responses(t)[i].is_fraud /\ label # -1) =>
             \A higher \in ThresholdGrid :
               higher >= FRAUD_THRESHOLD => Decide(label, p, higher)

\* C11 amended: with the label and the probability of a response fixed, a
\* transaction labelled anomalous is fraud at every threshold; a transaction
\* labelled normal is fraud exactly at the thresholds <= its probability, so
\* raising the threshold never turns a normal verdict into fraud and
\* lowering it never turns a fraud verdict into normal, while a verdict that
\* is fraud purely because probability >= threshold turns normal once the
\* threshold is raised above the probability.
C11_ThresholdMonotone ==
  \A t \in Threads :
    ScoredAndReturned(t) =>
      \A i \in 1..Len(Responses(t)) :
        LET label == predictions[t][i]
            p == Normalize(anomaly_scores[t][i])
            verdict == Responses(t)[i].is_fraud
        IN /\ label = -1 =>
                verdict /\ \A other \in ThresholdGrid : Decide(label, p, other)
           /\ label # -1 =>
                /\ verdict <=> p >= FRAUD_THRESHOLD
                /\ \A other \in ThresholdGrid :
                     Decide(label, p, other) <=> p >= other
           /\ \A lower \in ThresholdGrid :
                (verdict /\ lower <= FRAUD_THRESHOLD) => Decide(label, p, lower)
           /\ \A higher \in ThresholdGrid :
                (~verdict /\ higher >= FRAUD_THRESHOLD)
                  => ~Decide(label, p, higher)

C11_Witness ==
  \E t \in Threads :
    /\ ScoredAndReturned(t)
    /\ \E i, j \in 1..Len(Responses(t)) :
         /\ predictions[t][i] = 1
         /\ Responses(t)[i].is_fraud
         /\ \E higher \in ThresholdGrid :
              /\ higher > FRAUD_THRESHOLD
              /\ ~Decide(1, Normalize(anomaly_scores[t][i]), higher)
         /\ predictions[t][j] = -1
         /\ Responses(t)[j].is_fraud

\* the upload request of thread t has been answered
UploadAnswered(t) == pc[t] = "responded" /\ request[t].route = "upload"

\* the uploads the route rejects by name or for the missing amount column
RejectedUpload(file) ==
  \/ NotCsvName(file.filename)
  \/ ~file.empty /\ "amount" \notin file.columns

\* C12: an upload whose file name does not end in .csv, or whose CSV lacks
\* the amount column, is answered with status 400, and detect_batch is not
\* invoked for it.
C12_RejectedUploadGets400 ==
  \A t \in Threads :
    (UploadAnswered(t) /\ RejectedUpload(request[t].file)) =>
      /\ request[t].status_code = 400
      /\ ~request[t].invoked

\* a scoring call of thread t on a single transaction has scaled its
\* features with the scaler the registry holds
SingleScaled(t) ==
  /\ Scoring(t)
  /\ Len(transactions[t]) = 1
  /\ pc[t] \in {"predict", "score", "build", "done"}
  /\ _scaler # NoneVal

\* C13: when the registry holds a scaler, a scoring call on one transaction
\* (detect, or detect_batch on a one-element batch) refits the scaler on that
\* one row and hands the model the all-zero vector; the fraud_score and
\* is_fraud it returns are those the model and the threshold give for the
\* all-zero vector, whatever the amount, merchant, category and customer_id
\* of the transaction.
C13_SingleRowScoresAlike ==
  \A t \in Threads :
    SingleScaled(t) =>
      /\ _scaler.n = 1
      /\ _scaler.sum = ExtractFeatures(transactions[t][1])
      /\ features_scaled[t] = << Zero4 >>
      /\ ScoredAndReturned(t) =>
           /\ Responses(t)[1].fraud_score
                = Round4(ClaimedProbability(ScoreRow(_model, Zero4)))
           /\ Responses(t)[1].is_fraud
                <=> (\/ ScoreRow(_model, Zero4) - _model.offset < 0
                     \/ ClaimedProbability(ScoreRow(_model, Zero4))
                          >= FRAUD_THRESHOLD)

C13_Witness ==
  \E t \in Threads :
    /\ SingleScaled(t)
    /\ ScoredAndReturned(t)
    /\ transactions[t][1].amount = 5000
    /\ transactions[t][1].merchant = "acme"
    /\ transactions[t][1].customer_id = "c7"
    /\ pre[t].scaler # NoneVal
    /\ pre[t].scaler # _scaler

=============================================================================
